---- MODULE Spec2Model ----
(***************************************************************************)
(* d3-ez components: candleSticks (src/src/component/candleSticks.js),     *)
(* circularLabels (src/src/component/circularLabels.js) and the line chart *)
(* (src/unnamed/part_000).  Each component is a closure over its           *)
(* configuration; its render entry point joins data to DOM elements.       *)
(*                                                                         *)
(* Numbers are exact: a pixel position is a rational <<n, d>> in lowest    *)
(* terms with d > 0 (floating point rounding is not modelled).             *)
(***************************************************************************)
EXTENDS Integers, Sequences, FiniteSets, TLC

VARIABLES
    candleSticks,    \* the closure of the candleSticks component
    lineChart,       \* the closure of the line chart
    circularLabels,  \* the closure of the circularLabels component
    dom,             \* the document: series group and candles, the line
                     \* chart's containers, the circular labels
    arrays,          \* the application's data arrays, by name
    hist,            \* what has been done so far (see histEmpty)
    ret,             \* what the last operation returned, or the DOM event it was
    calls            \* the listener calls the last operation made

vars == <<candleSticks, lineChart, circularLabels, dom, arrays, hist, ret, calls>>

----------------------------------------------------------------------------
(* Bounds of the model *)

\* Operations (renders, accessor calls, DOM events) in one behaviour.
MaxOps == 4

\* Prices of the candles drawn for the open-close rectangle check.
MaxPrice == 6

----------------------------------------------------------------------------
(* Values *)

Undefined == [type |-> "undefined"]

\* What a call that throws leaves the caller with.
TypeError == [type |-> "TypeError"]

\* `return this` / `return my` of a chained setter.
My(component) == [type |-> "component", name |-> component]

Abs(n) == IF n < 0 THEN -n ELSE n

RECURSIVE Gcd(_, _)
Gcd(a, b) == IF b = 0 THEN a ELSE Gcd(b, a % b)

Rat(n, d) ==
    LET g == Gcd(Abs(n), Abs(d))
        s == IF d < 0 THEN -1 ELSE 1
    IN  <<(s * n) \div g, (s * d) \div g>>

RInt(n) == <<n, 1>>
RAdd(p, q) == Rat(p[1] * q[2] + q[1] * p[2], p[2] * q[2])
RSub(p, q) == Rat(p[1] * q[2] - q[1] * p[2], p[2] * q[2])
RMul(p, q) == Rat(p[1] * q[1], p[2] * q[2])
RLess(p, q) == p[1] * q[2] < q[1] * p[2]
RLeq(p, q) == p[1] * q[2] <= q[1] * p[2]

Range(s) == {s[i] : i \in 1..Len(s)}

\* d3.min / d3.max over a non-empty set of numbers.
SetMin(S) == CHOOSE x \in S : \A y \in S : x <= y
SetMax(S) == CHOOSE x \in S : \A y \in S : x >= y

FloorDiv(a, b) == a \div b
CeilDiv(a, b) == -((-a) \div b)

----------------------------------------------------------------------------
(* d3 scales, as the components call them *)

\* The largest power of ten that is at most r (r >= 1).
RECURSIVE Pow10Floor(_)
Pow10Floor(r) == IF r < 10 THEN 1 ELSE 10 * Pow10Floor(r \div 10)

\* d3.tickIncrement(start, stop, 10) for integers start <= stop: a positive
\* result is the step, a negative result -k is the step 1/k, 0 is no step.
\* With r = stop - start, step = r / 10, power = floor(log10(step)) and
\* error = step / 10^power, compared with sqrt(50), sqrt(10) and sqrt(2).
tickIncrement(start, stop) ==
    LET r == stop - start
        p == Pow10Floor(r)
        factor == IF r * r >= 50 * p * p THEN 10
                  ELSE IF r * r >= 10 * p * p THEN 5
                  ELSE IF r * r >= 2 * p * p THEN 2
                  ELSE 1
    IN  IF r <= 0 THEN 0
        ELSE IF p >= 10 THEN factor * (p \div 10)
        ELSE -(10 \div factor)

\* linear.nice() on an integer domain <<d0, d1>> with d0 <= d1: the domain
\* is extended to multiples of the tick step (a step of 1/k leaves integers
\* where they are).
nice(domain) ==
    LET step1 == tickIncrement(domain[1], domain[2])
        start == IF step1 > 0 THEN FloorDiv(domain[1], step1) * step1 ELSE domain[1]
        stop  == IF step1 > 0 THEN CeilDiv(domain[2], step1) * step1 ELSE domain[2]
        step2 == IF step1 = 0 THEN 0 ELSE tickIncrement(start, stop)
    IN  IF step2 > 0
        THEN <<FloorDiv(start, step2) * step2, CeilDiv(stop, step2) * step2>>
        ELSE <<start, stop>>

scaleLinearNice(domain, range) ==
    [type |-> "linear", domain |-> nice(domain), range |-> range]

scaleLinear(domain, range) ==
    [type |-> "linear", domain |-> domain, range |-> range]

scaleTime(domain, range) ==
    [type |-> "time", domain |-> domain, range |-> range]

\* scale(x) of a continuous scale with a two-point integer domain and range:
\* t = (x - d0) / (d1 - d0), or 0 when the domain is a single point, then
\* r0 + t * (r1 - r0).  Not clamped.
Apply(scale, x) ==
    LET d0 == scale.domain[1]
        d1 == scale.domain[2]
        r0 == scale.range[1]
        r1 == scale.range[2]
        t  == IF d1 = d0 THEN RInt(0) ELSE Rat(x - d0, d1 - d0)
    IN  RAdd(RInt(r0), RMul(t, RInt(r1 - r0)))

scaleOrdinal(domain, range) ==
    [type |-> "ordinal", domain |-> domain, range |-> range]

IndexOf(s, x) == CHOOSE i \in 1..Len(s) : s[i] = x

\* An ordinal scale called with a key outside its domain appends the key.
OrdinalDomain(scale, key) ==
    IF key \in Range(scale.domain) THEN scale.domain ELSE Append(scale.domain, key)

\* ordinal(key): range[(index of key in the domain) mod (length of range)].
Ordinal(scale, key) ==
    LET i == IndexOf(OrdinalDomain(scale, key), key)
    IN  IF Len(scale.range) = 0 THEN Undefined
        ELSE scale.range[((i - 1) % Len(scale.range)) + 1]


----------------------------------------------------------------------------
(* d3.dispatch *)

EventTypes == {"customValueMouseOver", "customValueMouseOut", "customValueClick",
               "customSeriesMouseOver", "customSeriesMouseOut", "customSeriesClick"}

\* d3.dispatch(...types): no callback registered.  A registration is
\* [name, callback]; at most one per name and type.
d3dispatch == [type |-> "dispatch", on |-> [t \in EventTypes |-> {}]]

\* dispatch.on(type.name, callback): a null callback removes the registration.
dispatchOn(dispatch, t, name, callback) ==
    LET others == {r \in dispatch.on[t] : r.name # name}
    IN  [dispatch EXCEPT !.on[t] =
            IF callback = "null" THEN others
            ELSE others \cup {[name |-> name, callback |-> callback]}]

\* dispatch.on(type.name): the callback registered, or undefined.
dispatchGet(dispatch, t, name) ==
    IF \E r \in dispatch.on[t] : r.name = name
    THEN (CHOOSE r \in dispatch.on[t] : r.name = name).callback
    ELSE "undefined"

\* dispatch.call(type, that, d): every callback of the type is called with d.
dispatchCall(dispatch, t, d) ==
    {[callback |-> r.callback, event |-> t, datum |-> d] : r \in dispatch.on[t]}

----------------------------------------------------------------------------
(* candleSticks: src/src/component/candleSticks.js *)

DayMs == 86400000

candleSticksDefaults ==
    [width       |-> 400,
     height      |-> 400,
     colors      |-> <<"green", "red">>,
     dispatch    |-> d3dispatch,
     xScale      |-> Undefined,
     yScale      |-> Undefined,
     colorScale  |-> scaleOrdinal(<<TRUE, FALSE>>, <<"green", "red">>),
     candleWidth |-> 3]

\* The x domain without the day added at either end.
xDomainUnpadded(data) ==
    <<SetMin({data.values[i].date : i \in 1..Len(data.values)}),
      SetMax({data.values[i].date : i \in 1..Len(data.values)})>>

\* [new Date(minDate - 8.64e7), new Date(maxDate + 8.64e7)], the dates being
\* numbers of milliseconds.
xDomain(data) ==
    <<SetMin({data.values[i].date : i \in 1..Len(data.values)}) - DayMs,
      SetMax({data.values[i].date : i \in 1..Len(data.values)}) + DayMs>>

yDomain(data) ==
    <<SetMin({data.values[i].low : i \in 1..Len(data.values)}),
      SetMax({data.values[i].high : i \in 1..Len(data.values)})>>

\* init(data): a scale is computed only while the closure variable is undefined.
candleSticksInit(cs, data) ==
    [cs EXCEPT
        !.colorScale = IF cs.colorScale = Undefined
                       THEN scaleOrdinal(<<TRUE, FALSE>>, cs.colors)
                       ELSE cs.colorScale,
        !.xScale = IF cs.xScale = Undefined
                   THEN scaleTime(xDomain(data), <<0, cs.width>>)
                   ELSE cs.xScale,
        !.yScale = IF cs.yScale = Undefined
                   THEN scaleLinearNice(yDomain(data), <<cs.height, 0>>)
                   ELSE cs.yScale]

\* The comparison of isUpDay turned round.
isUpDayFlipped(d) == d.close < d.open

isUpDay(d) == d.close > d.open

\* The path of a candle's high-low line: the x of both points, y of the
\* high, y of the low.
highLowLine(cs, d) ==
    [datum |-> d,
     x  |-> Apply(cs.xScale, d.date),
     y1 |-> Apply(cs.yScale, d.high),
     y2 |-> Apply(cs.yScale, d.low)]

openCloseBar(cs, d) ==
    [datum  |-> d,
     x      |-> RSub(Apply(cs.xScale, d.date), RInt(cs.candleWidth)),
     y      |-> IF isUpDay(d) THEN Apply(cs.yScale, d.close) ELSE Apply(cs.yScale, d.open),
     width  |-> cs.candleWidth * 2,
     height |-> IF isUpDay(d)
                THEN RSub(Apply(cs.yScale, d.open), Apply(cs.yScale, d.close))
                ELSE RSub(Apply(cs.yScale, d.close), Apply(cs.yScale, d.open))]

\* An entering candle: a g.candle with fill, stroke and listeners, to which
\* highLowLines and openCloseBars append the line and the rectangle.
enterCandle(cs, d) ==
    [datum  |-> d,
     fill   |-> Ordinal(cs.colorScale, isUpDay(d)),
     stroke |-> Ordinal(cs.colorScale, isUpDay(d)),
     on     |-> [mouseover |-> "customValueMouseOver", click |-> "customValueClick"],
     line   |-> highLowLine(cs, d),
     rect   |-> openCloseBar(cs, d)]

\* A candle of the update selection: the join binds the new datum to the g,
\* and .data([d]) in highLowLines / openCloseBars binds it to the existing
\* path and rect; attributes are set on entering elements only.
updateCandle(el, d) ==
    [el EXCEPT !.datum = d, !.line.datum = d, !.rect.datum = d]

\* candles.exit(): candles is the merged enter-and-update selection, whose
\* exit selection is empty.
candlesExit(old, values) == {}

\* The data join by index of the values onto the existing g.candle elements.
joinCandles(cs, old, values) ==
    LET n == Len(values)
        m == Len(old)
        k == IF n > m THEN n ELSE m
        removed == candlesExit(old, values)
        all == [i \in 1..k |->
                   IF i <= m /\ i <= n THEN updateCandle(old[i], values[i])
                   ELSE IF i <= n THEN enterCandle(cs, values[i])
                   ELSE old[i]]
    IN  SelectSeq(all, LAMBDA el : el \notin removed)

seriesGroup(data) ==
    [datum |-> data,
     id    |-> data.key,
     on    |-> [mouseover |-> "customSeriesMouseOver", click |-> "customSeriesClick"]]


\* my(selection), for a selection of one series group bound to data.
candleSticksRender(data) ==
    /\ hist.ops < MaxOps
    /\ LET cs == candleSticksInit(candleSticks, data)
       IN  /\ candleSticks' = cs
           /\ dom' = [dom EXCEPT !.series = seriesGroup(data),
                                 !.candles = joinCandles(cs, dom.candles, data.values)]
    /\ hist' = [ops |-> hist.ops + 1, renders |-> hist.renders + 1,
                last |-> data, prev |-> hist.last, inputs |-> hist.inputs \cup {data}]
    /\ ret' = Undefined
    /\ calls' = {}
    /\ UNCHANGED <<lineChart, circularLabels, arrays>>

\* if (!arguments.length) return <variable>; <variable> = _; return this;
GetSet(cfg, field, args, self) ==
    IF Len(args) = 0
    THEN [cfg |-> cfg, value |-> cfg[field]]
    ELSE [cfg |-> [cfg EXCEPT ![field] = args[1]], value |-> self]

\* if (!arguments.length) return dispatch(); dispatch = _; return this;
\* The dispatch object is not a function: calling it throws.
GetSetDispatch(cfg, args, self) ==
    IF Len(args) = 0
    THEN [cfg |-> cfg, value |-> TypeError]
    ELSE [cfg |-> [cfg EXCEPT !.dispatch = args[1]], value |-> self]

\* my.on(type.name) returns the callback; my.on(type.name, callback)
\* registers it (null removes it) and returns my.
GetSetOn(cfg, args, self) ==
    IF Len(args) = 1
    THEN [cfg |-> cfg, value |-> dispatchGet(cfg.dispatch, args[1].type, args[1].name)]
    ELSE [cfg |-> [cfg EXCEPT !.dispatch =
                      dispatchOn(cfg.dispatch, args[1].type, args[1].name, args[2])],
          value |-> self]

\* A call of a candleSticks accessor, with the closure and the value it leaves.
candleSticksCall(accessor, args, r) ==
    /\ hist.ops < MaxOps
    /\ candleSticks' = r.cfg
    /\ ret' = [type |-> "call", component |-> "candleSticks", accessor |-> accessor,
               args |-> args, value |-> r.value]
    /\ hist' = [hist EXCEPT !.ops = @ + 1]
    /\ calls' = {}
    /\ UNCHANGED <<lineChart, circularLabels, dom, arrays>>

candleSticks_width(args) ==
    candleSticksCall("width", args, GetSet(candleSticks, "width", args, My("candleSticks")))

candleSticks_height(args) ==
    candleSticksCall("height", args, GetSet(candleSticks, "height", args, My("candleSticks")))

candleSticks_colorScale(args) ==
    candleSticksCall("colorScale", args,
                     GetSet(candleSticks, "colorScale", args, My("candleSticks")))

candleSticks_colors(args) ==
    candleSticksCall("colors", args, GetSet(candleSticks, "colors", args, My("candleSticks")))

candleSticks_xScale(args) ==
    candleSticksCall("xScale", args, GetSet(candleSticks, "xScale", args, My("candleSticks")))

candleSticks_yScale(args) ==
    candleSticksCall("yScale", args, GetSet(candleSticks, "yScale", args, My("candleSticks")))

candleSticks_candleWidth(args) ==
    candleSticksCall("candleWidth", args,
                     GetSet(candleSticks, "candleWidth", args, My("candleSticks")))

candleSticks_dispatch(args) ==
    candleSticksCall("dispatch", args, GetSetDispatch(candleSticks, args, My("candleSticks")))

candleSticks_on(args) ==
    candleSticksCall("on", args, GetSetOn(candleSticks, args, My("candleSticks")))

\* The listeners a DOM event of the kind runs on an element: the element's
\* listener for the kind, if it has one, calls the dispatcher with the
\* element's datum.
listenerCalls(el, kind) ==
    IF kind \in DOMAIN el.on
    THEN dispatchCall(candleSticks.dispatch, el.on[kind], el.datum)
    ELSE {}

\* A mouseover, mouseout or click on the series group (target 0) or on
\* candle number target; an event on a candle bubbles to the series group.
domEvent(target, kind) ==
    /\ hist.ops < MaxOps
    /\ dom.series # Undefined
    /\ target \in 0..Len(dom.candles)
    /\ calls' = (IF target = 0 THEN {} ELSE listenerCalls(dom.candles[target], kind))
                \cup listenerCalls(dom.series, kind)
    /\ ret' = [type |-> "event", target |-> target, kind |-> kind]
    /\ hist' = [hist EXCEPT !.ops = @ + 1]
    /\ UNCHANGED <<candleSticks, lineChart, circularLabels, dom, arrays>>


----------------------------------------------------------------------------
(* Line chart: src/unnamed/part_000                                        *)
(* The ticks drawn by the axes and what the lineChart and scatterPlot       *)
(* sub-components draw inside a group are not part of the model.            *)

\* A point in time, m * 1000^e: a number of seconds as the data gives it
\* (type "number", e = 0) or the milliseconds of a Date.
Seconds(m) == [type |-> "number", m |-> m, e |-> 0]

\* new Date(key * 1000): a Date is coerced to its milliseconds, so a key
\* that is a Date already is multiplied again.
TimesThousandDate(key) ==
    [type |-> "date", m |-> key.m, e |-> IF key.m = 0 THEN 1 ELSE key.e + 1]

RECURSIVE Pow1000(_)
Pow1000(e) == IF e <= 0 THEN 1 ELSE 1000 * Pow1000(e - 1)

TimeLeq(a, b) ==
    LET e0 == IF a.e < b.e THEN a.e ELSE b.e
    IN  a.m * Pow1000(a.e - e0) <= b.m * Pow1000(b.e - e0)

\* d3.extent(values, d => d.key)
extent(values) ==
    LET keys == {values[i].key : i \in 1..Len(values)}
    IN  <<CHOOSE x \in keys : \A y \in keys : TimeLeq(x, y),
          CHOOSE x \in keys : \A y \in keys : TimeLeq(y, x)>>

\* data.forEach(d => d.values.forEach(b => b.key = new Date(b.key * 1000))):
\* the array passed in is changed in place.
convertDates(data) ==
    [i \in 1..Len(data) |->
        [data[i] EXCEPT !.values =
            [j \in 1..Len(data[i].values) |->
                [data[i].values[j] EXCEPT !.key = TimesThousandDate(@)]]]]

\* dataParse(data): the largest value and the series keys in data order.
dataParse(data) ==
    [maxValue   |-> SetMax(UNION {{data[i].values[j].value : j \in 1..Len(data[i].values)} :
                                     i \in 1..Len(data)}),
     groupNames |-> [i \in 1..Len(data) |-> data[i].key]]

\* palette.categorical(3)
paletteCategorical3 == <<"#1f77b4", "#ff7f0e", "#2ca02c">>

lineChartDefaults ==
    [svg        |-> Undefined,
     chart      |-> Undefined,
     width      |-> 400,
     height     |-> 300,
     margin     |-> [top |-> 20, right |-> 20, bottom |-> 40, left |-> 40],
     transition |-> [ease |-> "easeBounce", duration |-> 500],
     colors     |-> paletteCategorical3,
     dispatch   |-> d3dispatch,
     chartW     |-> Undefined,
     chartH     |-> Undefined,
     xScale     |-> Undefined,
     yScale     |-> Undefined,
     colorScale |-> Undefined,
     yAxisLabel |-> "null"]

\* The colour scale of init with the guard dropped: built on every render.
lineChartColorScaleRebuilt(lc, groupNames) == scaleOrdinal(groupNames, lc.colors)

\* if (!colorScale) colorScale = d3.scaleOrdinal().range(colors).domain(groupNames)
lineChartColorScale(lc, groupNames) ==
    IF lc.colorScale = Undefined
    THEN scaleOrdinal(groupNames, lc.colors)
    ELSE lc.colorScale

\* init(data), data being the array after the conversion of its dates;
\* sliced is dataParse of the array as it was passed.
lineChartInit(lc, sliced, data) ==
    LET chartW == lc.width - lc.margin.left - lc.margin.right
        chartH == lc.height - lc.margin.top - lc.margin.bottom
    IN  [lc EXCEPT
            !.chartW = chartW,
            !.chartH = chartH,
            !.colorScale = lineChartColorScale(lc, sliced.groupNames),
            !.xScale = scaleTime(extent(data[1].values), <<0, chartW>>),
            !.yScale = scaleLinear(<<RInt(0), Rat(sliced.maxValue * 105, 100)>>,
                                   <<chartH, 0>>)]

RECURSIVE ordinalAll(_, _)
\* The scale after it has been called with each key in turn.
ordinalAll(scale, keys) ==
    IF Len(keys) = 0 THEN scale
    ELSE ordinalAll([scale EXCEPT !.domain = OrdinalDomain(scale, Head(keys))], Tail(keys))

\* chart.selectAll(".lineGroup").data(d => d), enter().append("g") with the
\* fill of the key, merge, exit().remove(): the join by index of the series
\* of array a onto the groups of one chart.  scale is the colour scale after
\* the calls made for the entering groups.
joinGroups(scale, old, a, series) ==
    [i \in 1..Len(series) |->
        IF i <= Len(old)
        THEN [old[i] EXCEPT !.datum = [array |-> a, index |-> i]]
        ELSE [datum |-> [array |-> a, index |-> i],
              fill  |-> Ordinal(scale, series[i].key)]]

enterKeys(old, series) ==
    [i \in 1..(IF Len(series) > Len(old) THEN Len(series) - Len(old) ELSE 0) |->
        series[Len(old) + i].key]

\* The update of one chart node: its dimensions, and the joins of the line
\* groups and the dot groups of the data bound to it.
updateChart(lc, node, data) ==
    LET scale == ordinalAll(lc.colorScale, enterKeys(node.lineGroups, data))
    IN  [node EXCEPT
            !.classed = "chart lineChart",
            !.transform = <<lc.margin.left, lc.margin.top>>,
            !.width = lc.chartW,
            !.height = lc.chartH,
            !.lineGroups = joinGroups(scale, node.lineGroups, node.datum, data),
            !.dotGroups = joinGroups(scale, node.dotGroups, node.datum, data)]

\* svg.append("g").classed("chart", true), with the axis groups; an appended
\* element inherits the datum of its parent.
newChart(lc, a) ==
    [datum |-> a, classed |-> "chart", transform |-> Undefined,
     width |-> Undefined, height |-> Undefined,
     yAxisText |-> lc.yAxisLabel, lineGroups |-> <<>>, dotGroups |-> <<>>]

\* selection.select(".chart"): per container of the selection its chart
\* group, or null; the chart group found is given the container's datum.
selectChart(containers, sel) ==
    [i \in 1..Len(sel) |->
        IF containers[sel[i].container].chart = Undefined THEN "null"
        ELSE sel[i].container]

RECURSIVE updateCharts(_, _, _)
\* The chart selection updated node by node: st is [lc, arrays, containers],
\* nodes the container names (or null) of the nodes left to do.
updateCharts(st, nodes, k) ==
    IF k > Len(nodes) THEN st
    ELSE IF nodes[k] = "null" THEN updateCharts(st, nodes, k + 1)
    ELSE LET node == st.containers[nodes[k]].chart
             data == st.arrays[node.datum]
             next == updateChart(st.lc, node, data)
         IN  updateCharts(
                [st EXCEPT
                    !.lc.colorScale = ordinalAll(@, enterKeys(node.lineGroups, data)),
                    !.containers[nodes[k]].chart = next],
                nodes, k + 1)

\* if (!svg) { svg = ...append("svg"); chart = svg.append("g")... }
\* else { chart = selection.select(".chart") }: svg is one variable of the
\* closure, whichever container is being rendered.
lineChartContainers(st, sel, j) ==
    LET c == sel[j].container
    IN  IF st.lc.svg = Undefined
        THEN [st EXCEPT
                !.lc.svg = [type |-> "selection", container |-> c],
                !.lc.chart = <<c>>,
                !.containers[c].svg = [classed |-> "d3ez", width |-> st.lc.width,
                                       height |-> st.lc.height],
                !.containers[c].chart = newChart(st.lc, st.containers[c].datum)]
        ELSE [st EXCEPT
                !.lc.chart = selectChart(st.containers, sel),
                !.containers = [d \in DOMAIN st.containers |->
                    IF st.containers[d].chart # Undefined
                       /\ \E i \in 1..Len(sel) : sel[i].container = d
                    THEN [st.containers[d] EXCEPT !.chart.datum = st.containers[d].datum]
                    ELSE st.containers[d]]]

\* The body of selection.each for container number j of the selection.
lineChartEach(st, sel, j) ==
    LET a      == st.containers[sel[j].container].datum
        sliced == dataParse(st.arrays[a])
        arrs   == [st.arrays EXCEPT ![a] = convertDates(@)]
        st1    == [st EXCEPT !.arrays = arrs,
                             !.lc = lineChartInit(st.lc, sliced, arrs[a])]
        st2    == lineChartContainers(st1, sel, j)
    IN  updateCharts(st2, st2.lc.chart, 1)

RECURSIVE lineChartEachAll(_, _, _)
lineChartEachAll(st, sel, j) ==
    IF j > Len(sel) THEN st
    ELSE lineChartEachAll(lineChartEach(st, sel, j), sel, j + 1)

\* The caller binds an array to each container of the selection
\* (selection.datum(data)) and calls the chart on the selection.
bindData(containers, sel) ==
    [c \in DOMAIN containers |->
        IF \E i \in 1..Len(sel) : sel[i].container = c
        THEN [containers[c] EXCEPT
                !.datum = sel[CHOOSE i \in 1..Len(sel) : sel[i].container = c].array]
        ELSE containers[c]]


\* my(selection) for a selection of containers, each bound to one array:
\* sel is the sequence of [container, array] in document order.
lineChartRender(sel) ==
    /\ hist.ops < MaxOps
    /\ LET st == lineChartEachAll([lc |-> lineChart, arrays |-> arrays,
                                   containers |-> bindData(dom.containers, sel)], sel, 1)
       IN  /\ lineChart' = st.lc
           /\ arrays' = st.arrays
           /\ dom' = [dom EXCEPT !.containers = st.containers]
    /\ hist' = [ops |-> hist.ops + 1, renders |-> hist.renders + 1,
                last |-> sel, prev |-> hist.last, inputs |-> hist.inputs \cup {sel}]
    /\ ret' = Undefined
    /\ calls' = {}
    /\ UNCHANGED <<candleSticks, circularLabels>>

\* A call of a line chart accessor, with the closure and the value it leaves.
lineChartCall(accessor, args, r) ==
    /\ hist.ops < MaxOps
    /\ lineChart' = r.cfg
    /\ ret' = [type |-> "call", component |-> "lineChart", accessor |-> accessor,
               args |-> args, value |-> r.value]
    /\ hist' = [hist EXCEPT !.ops = @ + 1]
    /\ calls' = {}
    /\ UNCHANGED <<candleSticks, circularLabels, dom, arrays>>

lineChart_width(args) ==
    lineChartCall("width", args, GetSet(lineChart, "width", args, My("lineChart")))

lineChart_height(args) ==
    lineChartCall("height", args, GetSet(lineChart, "height", args, My("lineChart")))

lineChart_margin(args) ==
    lineChartCall("margin", args, GetSet(lineChart, "margin", args, My("lineChart")))

lineChart_yAxisLabel(args) ==
    lineChartCall("yAxisLabel", args, GetSet(lineChart, "yAxisLabel", args, My("lineChart")))

lineChart_transition(args) ==
    lineChartCall("transition", args, GetSet(lineChart, "transition", args, My("lineChart")))

lineChart_colors(args) ==
    lineChartCall("colors", args, GetSet(lineChart, "colors", args, My("lineChart")))

lineChart_colorScale(args) ==
    lineChartCall("colorScale", args, GetSet(lineChart, "colorScale", args, My("lineChart")))

lineChart_dispatch(args) ==
    lineChartCall("dispatch", args, GetSetDispatch(lineChart, args, My("lineChart")))

lineChart_on(args) ==
    lineChartCall("on", args, GetSetOn(lineChart, args, My("lineChart")))

----------------------------------------------------------------------------
(* circularLabels: src/src/component/circularLabels.js *)

circularLabelsDefaults ==
    [width            |-> 400,
     height           |-> 300,
     radialScale      |-> Undefined,
     radius           |-> Undefined,
     capitalizeLabels |-> FALSE,
     textAnchor       |-> "start"]

scaleBand(domain, range) ==
    [type |-> "band", domain |-> domain, range |-> range]

\* linear.ticks(): d3.ticks(d0, d1, 10) for an integer domain d0 <= d1, as
\* rationals: multiples of the step from ceil(d0 / step) to floor(d1 / step),
\* or d0 + i / k for a step of 1 / k.
ticks(scale) ==
    LET d0   == scale.domain[1]
        d1   == scale.domain[2]
        step == tickIncrement(d0, d1)
    IN  IF d0 = d1 THEN <<RInt(d0)>>
        ELSE IF step > 0
        THEN [i \in 1..(FloorDiv(d1, step) - CeilDiv(d0, step) + 1) |->
                 RInt((CeilDiv(d0, step) + i - 1) * step)]
        ELSE [i \in 1..((d1 - d0) * (-step) + 1) |->
                 Rat(d0 * (-step) + i - 1, -step)]

\* typeof radialScale.ticks === "function" ? radialScale.ticks()
\*                                         : radialScale.domain()
tickData(radialScale) ==
    IF radialScale.type = "linear" THEN ticks(radialScale) ELSE radialScale.domain

\* The label scale with the domain ending at the last index.
textScaleLastIndex(radialScale, n) == scaleLinear(<<0, n - 1>>, radialScale.range)

\* d3.scaleLinear().domain([0, tickData.length]).range(radialScale.range())
textScale(radialScale, n) == scaleLinear(<<0, n>>, radialScale.range)

\* tickData.map((d, i) => ({ text: d, offset: textScale(i) / 360 * 100 })),
\* i counting from 0.
textData(radialScale) ==
    LET labels == tickData(radialScale)
    IN  [i \in 1..Len(labels) |->
            [text   |-> labels[i],
             offset |-> RMul(Apply(textScale(radialScale, Len(labels)), i - 1),
                             Rat(100, 360))]]

\* The join of the labels onto the text elements: surplus elements are
\* removed, an entering text gets the text-anchor style, and both entering
\* and updated elements end with the text and startOffset of their datum.
joinTexts(cl, old, data) ==
    [i \in 1..Len(data) |->
        [datum       |-> data[i],
         textAnchor  |-> IF i <= Len(old) THEN old[i].textAnchor ELSE cl.textAnchor,
         text        |-> data[i].text,
         startOffset |-> data[i].offset]]

\* my(selection) for a selection of one container: the radius defaults to
\* half the smaller side and is kept; the group and the label path are
\* made; without a radial scale reading radialScale.ticks throws and no
\* text is drawn.
circularLabelsRender ==
    /\ hist.ops < MaxOps
    /\ LET radius == IF circularLabels.radius = Undefined
                     THEN Rat(IF circularLabels.width < circularLabels.height
                              THEN circularLabels.width ELSE circularLabels.height, 2)
                     ELSE circularLabels.radius
           cl == [circularLabels EXCEPT !.radius = radius]
       IN  /\ circularLabels' = cl
           /\ dom' = [dom EXCEPT
                        !.labels.group = TRUE,
                        !.labels.path = radius,
                        !.labels.texts =
                            IF cl.radialScale = Undefined THEN @
                            ELSE joinTexts(cl, @, textData(cl.radialScale))]
           /\ ret' = IF cl.radialScale = Undefined THEN TypeError ELSE Undefined
    /\ hist' = [ops |-> hist.ops + 1, renders |-> hist.renders + 1,
                last |-> [radialScale |-> circularLabels.radialScale], prev |-> hist.last,
                inputs |-> hist.inputs \cup {[radialScale |-> circularLabels.radialScale]}]
    /\ calls' = {}
    /\ UNCHANGED <<candleSticks, lineChart, arrays>>

\* A call of a circularLabels accessor.
circularLabelsCall(accessor, args, r) ==
    /\ hist.ops < MaxOps
    /\ circularLabels' = r.cfg
    /\ ret' = [type |-> "call", component |-> "circularLabels", accessor |-> accessor,
               args |-> args, value |-> r.value]
    /\ hist' = [hist EXCEPT !.ops = @ + 1]
    /\ calls' = {}
    /\ UNCHANGED <<candleSticks, lineChart, dom, arrays>>

circularLabels_height(args) ==
    circularLabelsCall("height", args,
                       GetSet(circularLabels, "height", args, My("circularLabels")))

circularLabels_width(args) ==
    circularLabelsCall("width", args,
                       GetSet(circularLabels, "width", args, My("circularLabels")))

circularLabels_radius(args) ==
    circularLabelsCall("radius", args,
                       GetSet(circularLabels, "radius", args, My("circularLabels")))

circularLabels_radialScale(args) ==
    circularLabelsCall("radialScale", args,
                       GetSet(circularLabels, "radialScale", args, My("circularLabels")))

circularLabels_textAnchor(args) ==
    circularLabelsCall("textAnchor", args,
                       GetSet(circularLabels, "textAnchor", args, My("circularLabels")))


----------------------------------------------------------------------------
(* Inputs *)

Candle(date, open, high, low, close) ==
    [date |-> date, open |-> open, high |-> high, low |-> low, close |-> close]

\* Candle series: up days, down days, a day closing where it opened, one to
\* three values, price ranges that nice() rounds and that it leaves alone.
CandleData ==
    {[key |-> "A", values |-> <<Candle(0, 10, 14, 9, 13), Candle(DayMs, 13, 13, 3, 5)>>],
     [key |-> "A", values |-> <<Candle(2 * DayMs, 20, 27, 20, 20)>>],
     [key |-> "B", values |-> <<Candle(DayMs, 13, 13, 3, 5), Candle(2 * DayMs, 20, 27, 20, 20),
                                Candle(0, 10, 14, 9, 13)>>],
     [key |-> "B", values |-> <<Candle(DayMs \div 2, 5, 6, 4, 6)>>],
     [key |-> "A", values |-> <<Candle(3 * DayMs, 6, 8, 1, 2), Candle(0, 7, 7, 7, 7)>>]}

Min2(a, b) == IF a < b THEN a ELSE b
Max2(a, b) == IF a > b THEN a ELSE b

\* Single candles with every open and close up to MaxPrice, the low and the
\* high at the body's ends or at the ends of the price range.
BarData ==
    {[key |-> "A", values |-> <<Candle(0, o, h, l, c)>>] :
        o \in 0..MaxPrice, c \in 0..MaxPrice, l \in {0, 1}, h \in {MaxPrice - 1, MaxPrice}}

SaneBarData ==
    {d \in BarData : /\ d.values[1].low <= Min2(d.values[1].open, d.values[1].close)
                     /\ d.values[1].high >= Max2(d.values[1].open, d.values[1].close)}

\* Scales an application passes to candleSticks.
UserXScales == {scaleTime(<<-DayMs, 4 * DayMs>>, <<0, 100>>)}
UserYScales == {scaleLinear(<<0, 40>>, <<100, 0>>)}
BarYScales == {Undefined, scaleLinear(<<0, 40>>, <<100, 0>>), scaleLinear(<<0, 40>>, <<0, 100>>),
               scaleLinear(<<5, 1>>, <<7, 50>>)}

\* The arrays of the application that the line chart is given.
LineArrays ==
    [a1 |-> <<[key |-> "A", values |-> <<[key |-> Seconds(1), value |-> 10],
                                         [key |-> Seconds(2), value |-> 30]>>],
              [key |-> "B", values |-> <<[key |-> Seconds(1), value |-> 20],
                                         [key |-> Seconds(2), value |-> 5]>>]>>,
     a2 |-> <<[key |-> "B", values |-> <<[key |-> Seconds(2), value |-> 8],
                                         [key |-> Seconds(3), value |-> 9]>>],
              [key |-> "A", values |-> <<[key |-> Seconds(2), value |-> 7],
                                         [key |-> Seconds(3), value |-> 40]>>]>>,
     a3 |-> <<[key |-> "C", values |-> <<[key |-> Seconds(0), value |-> 1]>>],
              [key |-> "B", values |-> <<[key |-> Seconds(0), value |-> 2]>>],
              [key |-> "A", values |-> <<[key |-> Seconds(0), value |-> 3]>>]>>,
     a4 |-> <<[key |-> "D", values |-> <<[key |-> Seconds(5), value |-> 4]>>]>>]

Containers == {"c1", "c2"}

On(c, a) == [container |-> c, array |-> a]

\* The selections the line chart is called on.
Selections ==
    {<<On("c1", "a1")>>, <<On("c1", "a2")>>, <<On("c1", "a3")>>, <<On("c1", "a4")>>,
     <<On("c2", "a2")>>, <<On("c1", "a1"), On("c2", "a2")>>, <<On("c1", "a2"), On("c2", "a2")>>}

LineColors == {<<"black", "white">>}

\* Radial scales an application passes to circularLabels.
RadialScales ==
    {scaleLinear(<<0, 4>>, <<0, 360>>),
     scaleLinear(<<10, 50>>, <<0, 360>>),
     scaleLinear(<<3, 20>>, <<90, 270>>),
     scaleLinear(<<0, 1>>, <<360, 0>>),
     scaleBand(<<"Mon", "Tue", "Wed">>, <<0, 360>>),
     scaleBand(<<"N", "E", "S", "W", "up">>, <<45, 405>>),
     scaleBand(<<>>, <<0, 360>>)}

Callbacks == {"f", "g", "null"}
Names == {"", "tip"}

----------------------------------------------------------------------------
(* Specifications *)

domEmpty ==
    [series     |-> Undefined,
     candles    |-> <<>>,
     containers |-> [c \in Containers |->
                        [datum |-> Undefined, svg |-> Undefined, chart |-> Undefined]],
     labels     |-> [group |-> FALSE, path |-> Undefined, texts |-> <<>>]]

\* The record of a behaviour: the operations and renders done, the input of
\* the last render and of the one before, and every input rendered.
histEmpty ==
    [ops |-> 0, renders |-> 0, last |-> Undefined, prev |-> Undefined, inputs |-> {}]

\* The components as constructed, an empty document, the arrays as loaded.
Init ==
    /\ candleSticks = candleSticksDefaults
    /\ lineChart = lineChartDefaults
    /\ circularLabels = circularLabelsDefaults
    /\ dom = domEmpty
    /\ arrays = LineArrays
    /\ hist = histEmpty
    /\ ret = Undefined
    /\ calls = {}

\* candleSticks: renders and configuration.
NextCandle ==
    \/ \E data \in CandleData : candleSticksRender(data)
    \/ candleSticks_width(<<200>>)
    \/ candleSticks_height(<<200>>)
    \/ candleSticks_colors(<<(<<"blue", "orange">>)>>)
    \/ \E x \in UserXScales : candleSticks_xScale(<<x>>)
    \/ \E y \in UserYScales : candleSticks_yScale(<<y>>)
    \/ candleSticks_candleWidth(<<5>>)

SpecCandle == Init /\ [][NextCandle]_vars

\* candleSticks: renders, listeners and DOM events.
NextEvents ==
    \/ \E data \in CandleData : Len(data.values) <= 2 /\ candleSticksRender(data)
    \/ \E t \in EventTypes, n \in Names, f \in Callbacks :
          candleSticks_on(<<[type |-> t, name |-> n], f>>)
    \/ \E t \in EventTypes, n \in Names : candleSticks_on(<<[type |-> t, name |-> n]>>)
    \/ \E target \in 0..2, kind \in {"mouseover", "mouseout", "click"} :
          domEvent(target, kind)

SpecEvents == Init /\ [][NextEvents]_vars

\* One candle drawn with a y scale built from it or passed in.
InitBars ==
    /\ \E y \in BarYScales : candleSticks = [candleSticksDefaults EXCEPT !.yScale = y]
    /\ lineChart = lineChartDefaults
    /\ circularLabels = circularLabelsDefaults
    /\ dom = domEmpty
    /\ \E d \in SaneBarData : arrays = [bars |-> d]
    /\ hist = histEmpty
    /\ ret = Undefined
    /\ calls = {}

NextBars == candleSticksRender(arrays.bars)

SpecBars == InitBars /\ [][NextBars]_vars

\* The configuration accessors of the three components.
NextAccessors ==
    \/ \E args \in {<<>>, <<200>>} : candleSticks_width(args)
    \/ \E args \in {<<>>, <<200>>} : candleSticks_height(args)
    \/ \E args \in {<<>>, <<scaleOrdinal(<<TRUE, FALSE>>, <<"blue", "orange">>)>>} :
          candleSticks_colorScale(args)
    \/ \E args \in {<<>>, <<(<<"blue", "orange">>)>>} : candleSticks_colors(args)
    \/ \E args \in {<<>>} \cup {<<x>> : x \in UserXScales} : candleSticks_xScale(args)
    \/ \E args \in {<<>>} \cup {<<y>> : y \in UserYScales} : candleSticks_yScale(args)
    \/ \E args \in {<<>>, <<5>>} : candleSticks_candleWidth(args)
    \/ \E args \in {<<>>, <<d3dispatch>>} : candleSticks_dispatch(args)
    \/ \E args \in {<<>>, <<300>>} : lineChart_width(args)
    \/ \E args \in {<<>>, <<200>>} : lineChart_height(args)
    \/ \E args \in {<<>>, <<[top |-> 0, right |-> 0, bottom |-> 0, left |-> 0]>>} :
          lineChart_margin(args)
    \/ \E args \in {<<>>, <<"Price">>} : lineChart_yAxisLabel(args)
    \/ \E args \in {<<>>, <<[ease |-> "easeLinear", duration |-> 0]>>} :
          lineChart_transition(args)
    \/ \E args \in {<<>>} \cup {<<c>> : c \in LineColors} : lineChart_colors(args)
    \/ \E args \in {<<>>, <<scaleOrdinal(<<"A", "B">>, <<"black", "white">>)>>} :
          lineChart_colorScale(args)
    \/ \E args \in {<<>>, <<d3dispatch>>} : lineChart_dispatch(args)
    \/ \E args \in {<<[type |-> "customValueClick", name |-> ""]>>,
                    <<[type |-> "customValueClick", name |-> ""], "f">>} : lineChart_on(args)
    \/ \E args \in {<<>>, <<200>>} : circularLabels_height(args)
    \/ \E args \in {<<>>, <<200>>} : circularLabels_width(args)
    \/ \E args \in {<<>>, <<RInt(100)>>} : circularLabels_radius(args)
    \/ \E args \in {<<>>} \cup {<<r>> : r \in RadialScales} : circularLabels_radialScale(args)
    \/ \E args \in {<<>>, <<"middle">>} : circularLabels_textAnchor(args)

SpecAccessors == Init /\ [][NextAccessors]_vars

\* The line chart: renders of selections of containers, and its colours.
NextLine ==
    \/ \E sel \in Selections : lineChartRender(sel)
    \/ \E c \in LineColors : lineChart_colors(<<c>>)
    \/ lineChart_width(<<300>>)

SpecLine == Init /\ [][NextLine]_vars

\* circularLabels: renders and configuration.
NextLabels ==
    \/ circularLabelsRender
    \/ \E r \in RadialScales : circularLabels_radialScale(<<r>>)
    \/ circularLabels_width(<<200>>)
    \/ circularLabels_height(<<500>>)
    \/ circularLabels_radius(<<RInt(100)>>)
    \/ circularLabels_textAnchor(<<"middle">>)

SpecLabels == Init /\ [][NextLabels]_vars


----------------------------------------------------------------------------
(* Properties *)

\* The last operation was a render that returned.
Rendered == hist.renders >= 1 /\ ret = Undefined

\* This step is a render.
RenderStep == hist'.renders = hist.renders + 1

\* The custom event that re-broadcasts a DOM event on the series group
\* (target 0) or on a candle.
CustomName(target, kind) ==
    LET on == IF target = 0 THEN "customSeries" ELSE "customValue"
    IN  CASE kind = "mouseover" -> on \o "MouseOver"
          [] kind = "mouseout"  -> on \o "MouseOut"
          [] kind = "click"     -> on \o "Click"

\* C1: after a render, a mouseover, mouseout or click on a candle or on the
\* series group calls every listener registered through on() for the
\* corresponding custom event, with the datum of the element.
C1_Rebroadcast ==
    ret.type = "event" =>
        LET t  == CustomName(ret.target, ret.kind)
            el == IF ret.target = 0 THEN dom.series ELSE dom.candles[ret.target]
        IN  \A r \in candleSticks.dispatch.on[t] :
                [callback |-> r.callback, event |-> t, datum |-> el.datum] \in calls

Config(cs, lc, cl, component) ==
    CASE component = "candleSticks" -> cs
      [] component = "lineChart" -> lc
      [] component = "circularLabels" -> cl

C2Accessors ==
    {"width", "height", "margin", "colors", "colorScale", "xScale", "yScale", "candleWidth",
     "radius", "radialScale", "textAnchor", "transition", "yAxisLabel", "dispatch"}

C2Step ==
    (ret'.type = "call" /\ ret'.accessor \in C2Accessors) =>
        LET before == Config(candleSticks, lineChart, circularLabels, ret'.component)
            after  == Config(candleSticks', lineChart', circularLabels', ret'.component)
        IN  IF Len(ret'.args) = 0
            THEN /\ ret'.value = before[ret'.accessor]
                 /\ UNCHANGED <<candleSticks, lineChart, circularLabels>>
            ELSE /\ ret'.value = My(ret'.component)
                 /\ after[ret'.accessor] = ret'.args[1]
                 /\ \A f \in DOMAIN before \ {ret'.accessor} : after[f] = before[f]
                 /\ \A c \in {"candleSticks", "lineChart", "circularLabels"} \ {ret'.component} :
                       Config(candleSticks', lineChart', circularLabels', c)
                           = Config(candleSticks, lineChart, circularLabels, c)

\* C2: every configuration accessor, dispatch included, called with one
\* argument stores it, leaves the rest of the configuration alone and
\* returns the component; called with none it returns the stored value and
\* changes nothing.
C2_FluentAccessors == [][C2Step]_vars

\* C3: the x domain of the line chart after a render is the extent of the
\* dates of the raw array of the container rendered last, however often
\* that array was rendered before.
C3_DomainFromRawInput ==
    Rendered =>
        LET a == hist.last[Len(hist.last)].array
        IN  lineChart.xScale.domain = extent(convertDates(LineArrays[a])[1].values)

NonIncreasing(scale) ==
    (scale.domain[2] - scale.domain[1]) * (scale.range[2] - scale.range[1]) <= 0

\* C4: a candle is an up day exactly when close > open; the rectangle's y
\* is yScale(close) on an up day and yScale(open) otherwise, its height
\* yScale(open) - yScale(close) on an up day and yScale(close) - yScale(open)
\* otherwise; with a y scale that does not grow with the value the y is
\* the upper edge of the body and the height is not negative.
C4_OpenCloseBar ==
    \A i \in 1..Len(dom.candles) :
        LET el == dom.candles[i]
            d  == el.datum
            yo == Apply(candleSticks.yScale, d.open)
            yc == Apply(candleSticks.yScale, d.close)
        IN  /\ el.fill = (IF d.close > d.open THEN "green" ELSE "red")
            /\ d.close > d.open => el.rect.y = yc /\ el.rect.height = RSub(yo, yc)
            /\ d.close <= d.open => el.rect.y = yo /\ el.rect.height = RSub(yc, yo)
            /\ NonIncreasing(candleSticks.yScale) =>
                  /\ RLeq(el.rect.y, yo)
                  /\ RLeq(el.rect.y, yc)
                  /\ RLeq(RInt(0), el.rect.height)

C4_Witness ==
    \E i \in 1..Len(dom.candles) :
        /\ dom.candles[i].datum.close > dom.candles[i].datum.open
        /\ NonIncreasing(candleSticks.yScale)
        /\ RLess(RInt(0), dom.candles[i].rect.height)

C5Step ==
    LET values == hist'.last.values
        xs == candleSticks'.xScale
        ys == candleSticks'.yScale
    IN  /\ (RenderStep /\ candleSticks.xScale = Undefined) =>
              /\ \E i \in 1..Len(values) : xs.domain[1] = values[i].date - DayMs
              /\ \E i \in 1..Len(values) : xs.domain[2] = values[i].date + DayMs
              /\ \A i \in 1..Len(values) :
                    xs.domain[1] < values[i].date /\ values[i].date < xs.domain[2]
              /\ xs.range = <<0, candleSticks.width>>
        /\ (RenderStep /\ candleSticks.yScale = Undefined) =>
              /\ \A i \in 1..Len(values) :
                    /\ ys.domain[1] <= values[i].low /\ values[i].low <= ys.domain[2]
                    /\ ys.domain[1] <= values[i].high /\ values[i].high <= ys.domain[2]
              /\ ys.range = <<candleSticks.height, 0>>

C6_LabelOffsets ==
    (hist.renders >= 1 /\ hist.last.radialScale # Undefined) =>
        LET scale == hist.last.radialScale
            texts == dom.labels.texts
            n     == Len(texts)
            r0    == scale.range[1]
            r1    == scale.range[2]
        IN  /\ \A i \in 0..(n - 1) :
                  texts[i + 1].startOffset = Rat((r0 * n + i * (r1 - r0)) * 100, 360 * n)
            /\ r1 > r0 =>
                  \A i \in 1..(n - 1) : RLess(texts[i].startOffset, texts[i + 1].startOffset)
            /\ scale.range = <<0, 360>> =>
                  \A i \in 0..(n - 1) :
                      /\ texts[i + 1].startOffset = Rat(i * 100, n)
                      /\ RLeq(RInt(0), texts[i + 1].startOffset)
                      /\ RLess(texts[i + 1].startOffset, RInt(100))
            /\ scale.type = "band" =>
                  /\ n = Len(scale.domain)
                  /\ \A i \in 1..n : texts[i].text = scale.domain[i]

C6_Witness ==
    /\ hist.renders >= 1
    /\ hist.last.radialScale # Undefined
    /\ hist.last.radialScale.type = "linear"
    /\ hist.last.radialScale.range = <<90, 270>>
    /\ Len(dom.labels.texts) >= 3

\* The series keys of the data of a selection.
SelKeys(sel) ==
    UNION {{LineArrays[sel[i].array][j].key : j \in 1..Len(LineArrays[sel[i].array])} :
              i \in 1..Len(sel)}

C7Step ==
    (RenderStep /\ \A sel \in hist'.inputs : SelKeys(sel) = SelKeys(hist'.last)) =>
        LET keys == SelKeys(hist'.last)
        IN  /\ hist.renders >= 1 =>
                  \A k \in keys :
                      Ordinal(lineChart'.colorScale, k) = Ordinal(lineChart.colorScale, k)
            /\ Cardinality(keys) <= Len(lineChart'.colorScale.range) =>
                  \A k1, k2 \in keys :
                      k1 # k2 => Ordinal(lineChart'.colorScale, k1)
                                     # Ordinal(lineChart'.colorScale, k2)

\* C7: while every render of the chart had data with the same set of series
\* keys, a render leaves every key with the colour the scale gave it before,
\* and different keys have different colours if the keys are no more than
\* the colours.
C7_StableColours == [][C7Step]_vars

C7_Witness ==
    /\ hist.renders >= 2
    /\ hist.prev = <<On("c1", "a1")>>
    /\ hist.last = <<On("c1", "a2")>>
    /\ Ordinal(lineChart.colorScale, "A") = paletteCategorical3[1]
    /\ Ordinal(lineChart.colorScale, "B") = paletteCategorical3[2]

\* C8: after a render the candle elements are the values of the data one
\* to one, and each candle's line and rectangle are those of its datum.
C8_CandlesMatchData ==
    Rendered =>
        /\ Len(dom.candles) = Len(hist.last.values)
        /\ \A i \in 1..Len(dom.candles) :
              i <= Len(hist.last.values) =>
                  /\ dom.candles[i].datum = hist.last.values[i]
                  /\ dom.candles[i].line = highLowLine(candleSticks, dom.candles[i].datum)
                  /\ dom.candles[i].rect = openCloseBar(candleSticks, dom.candles[i].datum)

\* C9: after a render every container of the selection holds an svg and a
\* chart group with one line group per series of the container's data.
C9_EveryContainerRendered ==
    Rendered =>
        \A i \in 1..Len(hist.last) :
            LET c == dom.containers[hist.last[i].container]
            IN  /\ c.svg # Undefined
                /\ c.chart # Undefined
                /\ Len(c.chart.lineGroups) = Len(arrays[hist.last[i].array])

\* C10: with no colour scale passed, after a render an up-day candle has
\* the first colour of the array last set through colors() as fill and
\* stroke, a down-day candle the second.
C10_ColoursFromColors ==
    Rendered =>
        \A i \in 1..Len(dom.candles) :
            LET el == dom.candles[i]
                colour == IF el.datum.close > el.datum.open
                          THEN candleSticks.colors[1] ELSE candleSticks.colors[2]
            IN  el.fill = colour /\ el.stroke = colour


====
